---- MODULE Spec2Model ----
(***************************************************************************)
(* Watch-service control plane of the Drom, autoru and youla bots:        *)
(* the Storage (settings + ads table), the ParserService polling task,    *)
(* the command handlers (menu_button, text_message, show_menu) and the    *)
(* expiry watchdog (expiry_job).                                          *)
(*                                                                         *)
(* Scheduling follows asyncio: one event loop, so every piece of code     *)
(* between two awaits is one atomic action.  collect_ads is called        *)
(* synchronously inside the polling coroutine, so the fetch belongs to    *)
(* the atomic block that calls it.  Updates are handled one at a time     *)
(* (the Application is built without concurrent_updates), the watchdog    *)
(* job and the polling task interleave with the handler at its awaits.    *)
(***************************************************************************)
EXTENDS Integers, Sequences, FiniteSets, TLC

\* ---------------------------------------------------------------- bounds
MaxId       == 2   \* ad ids are 1..MaxId
MaxItems    == 2   \* cfg.max_items: cards looked at per fetch
MaxNow      == 2   \* the clock runs 1..MaxNow
MaxDays     == 1   \* --days is drawn from 0..MaxDays
MaxTasks    == 2   \* asyncio tasks running _run that can exist at once
MaxUrl      == 1   \* accepted watch URLs are 1..MaxUrl
MaxChat     == 2   \* chats are 1..MaxChat
MaxCount    == 2   \* the per-id counters of calls saturate here
MaxWarmup   == 1   \* cfg.warmup_runs is drawn from 0..MaxWarmup

None == 0          \* Python None / a missing settings row

Services == {"Drom", "autoru", "youla"}
Ids      == 1..MaxId
TaskIds  == 1..MaxTasks
Urls     == 1..MaxUrl
Chats    == 1..MaxChat

\* ------------------------------------------------------------- sequences
RECURSIVE Reverse(_)
Reverse(s) == IF s = <<>> THEN <<>> ELSE Append(Reverse(Tail(s)), Head(s))

RECURSIVE SeqsUpTo(_)
SeqsUpTo(n) ==
    IF n = 0 THEN {<<>>}
    ELSE LET shorter == SeqsUpTo(n - 1)
         IN  shorter \cup {Append(s, i) : s \in {x \in shorter : Len(x) = n - 1}, i \in Ids}

AdLists == SeqsUpTo(MaxItems)

Range(s) == {s[k] : k \in 1..Len(s)}

Min(a, b) == IF a < b THEN a ELSE b

VARIABLES
    \* configuration, fixed when the bot is deployed
    svc,            \* which of the three bots this is
    cfg,            \* autoru Config: fresh_days, warmup_runs, send_screenshot
    \* the clock
    now,
    \* Storage (sqlite, survives the process)
    expiry_at,      \* settings["expiry_at"] or None
    expired_lock,   \* settings["expired_lock"]: "absent", "false", "true"
    watch_url,      \* settings["watch_url"] or None
    chat_id,        \* settings["chat_id"] or None
    ads,            \* rows of table ads, in insertion order (the ad_id column)
    \* the process
    up,             \* main() has run and the application is polling
    task,           \* ParserService._task: None or a task id
    stop_event,     \* ParserService._stop_event: None or an event id
    tasks,          \* the asyncio tasks running _run, by id
    evset,          \* asyncio.Event state of the event created with task i
    mode,           \* per chat: context.user_data["mode"] = BTN_SET_URL
    hnd,            \* the update handler in flight
    wd,             \* the expiry_job run in flight
    \* observation of the notification channel
    sent,           \* per ad id: how often it was passed to _send_ad
    saves,          \* per ad id: how often it was passed to save_ad
    tick,           \* the current tick: the list fetched, ids dispatched, ids saved
    sentLocked      \* a _send_ad call was made while the lock was set

vars == <<svc, cfg, now, expiry_at, expired_lock, watch_url, chat_id, ads,
          up, task, stop_event, tasks, evset, mode, hnd, wd,
          sent, saves, tick, sentLocked>>

storeVars == <<expiry_at, expired_lock, watch_url, chat_id, ads>>
svcVars   == <<task, stop_event, tasks, evset>>
obsVars   == <<sent, saves, tick, sentLocked>>
cfgVars   == <<svc, cfg>>

\* --------------------------------------------------------------- Storage
\* (variant: without the `if self.get_kv(KEY_EXPIRY): return` of the first line)
ensure_expiry_onceAlways(exp, lock, t, days) == <<t + days, "false">>

\* ensure_expiry_once: the pair (expiry_at, expired_lock) after the call.
ensure_expiry_once(exp, lock, t, days) ==
    IF exp # None THEN <<exp, lock>> ELSE <<t + days, "false">>

is_locked(lock) == lock = "true"

lock_forever(lock) == "true"

\* (variant: `now > expiry`)
ExpiredStrict(t, exp) == exp # None /\ t > exp

\* `expiry and now >= expiry` of menu_button, text_message and expiry_job
Expired(t, exp) == exp # None /\ t >= exp

is_new_ad(table, id) == \A k \in 1..Len(table) : table[k] # id

\* (variant: a plain INSERT into a table without the primary key)
save_adInsert(table, id) == Append(table, id)

\* INSERT OR IGNORE on the primary key ad_id
save_ad(table, id) ==
    IF \E k \in 1..Len(table) : table[k] = id THEN table ELSE Append(table, id)

\* The text a user sends as a URL.  u names the text (0: the empty text);
\* the flags say whether it starts with one of the allowed https prefixes,
\* whether the host of the URL is one of the allowed domains, whether it
\* holds one of ; ' \ and whether it is longer than 2000 characters.
Text(u, p, h, f, l) ==
    [u |-> u, prefix_ok |-> p, host_ok |-> h, forbidden |-> f, long |-> l]

\* a URL of another host whose text starts with an allowed prefix
\* ("https://drom.ru.example.org/")
Foreign == MaxUrl + 1

TextInputs ==
    {Text(0, FALSE, FALSE, FALSE, FALSE)}
    \cup {Text(u, TRUE, TRUE, FALSE, FALSE) : u \in Urls}
    \cup {Text(Foreign, TRUE, FALSE, FALSE, FALSE)}
    \cup {Text(1, FALSE, FALSE, FALSE, FALSE), Text(1, TRUE, TRUE, TRUE, FALSE),
          Text(1, TRUE, TRUE, FALSE, TRUE)}

\* the texts without the one of a foreign host
HostTexts == {x \in TextInputs : x.prefix_ok => x.host_ok}

\* sanitize_url_drom / sanitize_url_auto / sanitize_url_youla
sanitize_url(x) ==
    IF x.u = 0 THEN None
    ELSE IF x.long THEN None
    ELSE IF ~x.prefix_ok THEN None
    ELSE IF x.forbidden THEN None
    ELSE x.u

\* (variant: set_watch_url storing what the sanitizer returned, also nothing)
set_watch_urlStoresAny(url, x) == sanitize_url(x)

\* set_watch_url: the stored watch_url after the call
set_watch_url(url, x) == IF sanitize_url(x) = None THEN url ELSE sanitize_url(x)

\* ---------------------------------------------------------- ParserService
NoTask == [pc |-> "none", res |-> "none", ev |-> None, url |-> None, chat |-> None,
           todo |-> <<>>, cur |-> None, img |-> FALSE, warm |-> 0]

NewTask == [NoTask EXCEPT !.pc = "created"]

\* a finished task keeps only how it ended: "stopped" (the loop saw the stop
\* event), "loop_error" (the except around the loop caught an exception),
\* "exc" (an exception left _run), "cancelled" (wait_for timed out)
Done(r) == [NoTask EXCEPT !.pc = "done", !.res = r]

Live(t) == t.pc \notin {"none", "done"}

\* (variant: `self._task.done()` in place of `not self._task.done()`)
is_runningDone == task # None /\ tasks[task].pc = "done"

is_running == task # None /\ tasks[task].pc # "done"

NoTick == [list |-> <<>>, sentq |-> <<>>, savedq |-> <<>>, allnew |-> FALSE,
           url |-> None, changed |-> FALSE, undated |-> {}]

IdleHnd == [pc |-> "idle", locked |-> FALSE, aw |-> None, chat |-> None]
\* (log: what the last expiry_job run printed, or "escaped" when an
\* exception left it)
IdleWd  == [pc |-> "idle", aw |-> None, log |-> "none"]

\* autoru Config fields the control plane reads; Drom and youla have none
\* (the defaults of the dataclass, and every option changed)
Configs ==
    {[fresh_days |-> 0, warmup_runs |-> 0, send_screenshot |-> FALSE],
     [fresh_days |-> -1, warmup_runs |-> MaxWarmup, send_screenshot |-> TRUE]}

NoConfig == [fresh_days |-> -1, warmup_runs |-> 0, send_screenshot |-> FALSE]

\* ------------------------------------------------------------------ Init
\* A new database file, the process not started yet.
Init ==
    /\ svc \in Services
    /\ cfg \in IF svc = "autoru" THEN Configs ELSE {NoConfig}
    /\ now = 1
    /\ expiry_at = None
    /\ expired_lock = "absent"
    /\ watch_url = None
    /\ chat_id = None
    /\ ads = <<>>
    /\ up = FALSE
    /\ task = None
    /\ stop_event = None
    /\ tasks = [i \in TaskIds |-> NoTask]
    /\ evset = [i \in TaskIds |-> FALSE]
    /\ mode = [c \in Chats |-> FALSE]
    /\ hnd = IdleHnd
    /\ wd = IdleWd
    /\ sent = [i \in Ids |-> 0]
    /\ saves = [i \in Ids |-> 0]
    /\ tick = NoTick
    /\ sentLocked = FALSE

\* (variant: Storage.__init__ creates the ads table anew at every launch)
MainNewTable(days) ==
    /\ ~up
    /\ up' = TRUE
    /\ expiry_at' = ensure_expiry_once(expiry_at, expired_lock, now, days)[1]
    /\ expired_lock' = ensure_expiry_once(expiry_at, expired_lock, now, days)[2]
    /\ task' = None
    /\ stop_event' = None
    /\ ads' = <<>>
    /\ UNCHANGED <<cfgVars, now, watch_url, chat_id, tasks, evset,
                   mode, hnd, wd, obsVars>>

\* main(): Storage(cfg.db), ensure_expiry_once(cfg.days), a new ParserService
Main(days) ==
    /\ ~up
    /\ up' = TRUE
    /\ expiry_at' = ensure_expiry_once(expiry_at, expired_lock, now, days)[1]
    /\ expired_lock' = ensure_expiry_once(expiry_at, expired_lock, now, days)[2]
    /\ task' = None
    /\ stop_event' = None
    /\ UNCHANGED <<cfgVars, now, watch_url, chat_id, ads, tasks, evset,
                   mode, hnd, wd, obsVars>>

\* (variant: the chat and the URL kept in memory, not in the settings table)
KillLosesSettings ==
    /\ up
    /\ up' = FALSE
    /\ task' = None
    /\ stop_event' = None
    /\ tasks' = [i \in TaskIds |-> NoTask]
    /\ evset' = [i \in TaskIds |-> FALSE]
    /\ mode' = [c \in Chats |-> FALSE]
    /\ hnd' = IdleHnd
    /\ wd' = IdleWd
    /\ tick' = NoTick
    /\ watch_url' = None
    /\ chat_id' = None
    /\ UNCHANGED <<cfgVars, now, expiry_at, expired_lock, ads, sent, saves, sentLocked>>

\* The process is killed: every coroutine and all of ParserService is gone,
\* the database file stays.
Kill ==
    /\ up
    /\ up' = FALSE
    /\ task' = None
    /\ stop_event' = None
    /\ tasks' = [i \in TaskIds |-> NoTask]
    /\ evset' = [i \in TaskIds |-> FALSE]
    /\ mode' = [c \in Chats |-> FALSE]
    /\ hnd' = IdleHnd
    /\ wd' = IdleWd
    /\ tick' = NoTick
    /\ UNCHANGED <<cfgVars, now, storeVars, sent, saves, sentLocked>>

Tick ==
    /\ now < MaxNow
    /\ now' = now + 1
    /\ UNCHANGED <<cfgVars, storeVars, up, svcVars, mode, hnd, wd, obsVars>>

\* ------------------------------------------------------ the polling task
\* What collect_ads can do: return the cards found, newest first (an
\* exception inside its try leaves the list gathered so far), or let the
\* exception of build_driver / webdriver.Chrome, raised before its try, out.
FetchOutcomes ==
    {[raise |-> TRUE, list |-> <<>>]} \cup {[raise |-> FALSE, list |-> l] : l \in AdLists}

\* collect_ads(url, ...): with no URL driver.get fails inside the try
collect_ads(url, out) == IF url = None THEN [out EXCEPT !.list = <<>>] ELSE out

RECURSIVE SkipSeen(_, _)
SkipSeen(todo, table) ==
    IF todo = <<>> THEN <<>>
    ELSE IF is_new_ad(table, Head(todo)) THEN todo
    ELSE SkipSeen(Tail(todo), table)

\* `for ad in reversed(ads)` up to its next await: ads already in the table
\* are passed over; the first new one is sent (Drom, youla) or has its
\* details fetched (autoru); with none left the loop reaches its sleep.
NextAd(t, table) ==
    LET rest == SkipSeen(t.todo, table)
    IN  IF rest = <<>>
        THEN [t EXCEPT !.pc = "sleep", !.todo = <<>>, !.cur = None, !.chat = None,
                       !.url = None, !.img = FALSE]
        ELSE [t EXCEPT !.pc = IF svc = "autoru" THEN "details" ELSE "send_ad",
                       !.cur = Head(rest), !.todo = Tail(rest), !.img = FALSE]

\* (variant: `for ad in ads`, without reversed)
BatchOrderAsFetched(list) == list

\* the order in which one tick walks the list collect_ads returned
BatchOrder(list) == Reverse(list)

Res(t, table, tk) == [t |-> t, ads |-> table, tick |-> tk, saved |-> <<>>]

FreshTick(list, table, url) ==
    [list |-> list, sentq |-> <<>>, savedq |-> <<>>,
     allnew |-> /\ Cardinality(Range(list)) = Len(list)
                /\ \A k \in 1..Len(list) : is_new_ad(table, list[k]),
     url |-> url, changed |-> tick.url # None /\ tick.url # url,
     undated |-> {}]

\* (variant: the URL is read once, before the loop, and kept for the run)
FetchFirstUrl(t, url, out) ==
    LET u == IF tick.url # None THEN tick.url ELSE url
        o == collect_ads(u, out)
    IN  IF o.raise
        THEN Res(Done("loop_error"), ads, NoTick)
        ELSE Res(NextAd([t EXCEPT !.url = None, !.todo = BatchOrder(o.list)], ads),
                 ads, FreshTick(o.list, ads, u))

\* `ads = collect_ads(url, ...)` and the start of the for loop
Fetch(t, url, out) ==
    LET o == collect_ads(url, out)
    IN  IF o.raise
        THEN Res(Done("loop_error"), ads, NoTick)
        ELSE Res(NextAd([t EXCEPT !.url = None, !.todo = BatchOrder(o.list)], ads),
                 ads, FreshTick(o.list, ads, url))

\* (variant: `while True`, the stop event is only looked at by the waits)
LoopTopNoCheck(t, out) ==
    IF watch_url = None \/ chat_id = None
    THEN Res([t EXCEPT !.pc = "idle_wait", !.url = watch_url, !.chat = chat_id,
                       !.todo = <<>>, !.cur = None], ads, NoTick)
    ELSE Fetch([t EXCEPT !.chat = chat_id], watch_url, out)

\* one pass from `while not stop_event.is_set()` to the next await
LoopTop(t, out) ==
    IF evset[t.ev]
    THEN Res(Done("stopped"), ads, NoTick)
    ELSE IF watch_url = None \/ chat_id = None
         THEN Res([t EXCEPT !.pc = "idle_wait", !.url = watch_url, !.chat = chat_id,
                            !.todo = <<>>, !.cur = None], ads, NoTick)
         ELSE Fetch([t EXCEPT !.chat = chat_id], watch_url, out)

\* `stop_event = self._stop_event; assert stop_event is not None`, then the loop
EnterLoop(t, out) ==
    IF stop_event = None
    THEN Res(Done("exc"), ads, NoTick)
    ELSE LoopTop([t EXCEPT !.ev = stop_event], out)

RECURSIVE SaveAll(_, _)
SaveAll(table, list) ==
    IF list = <<>> THEN table ELSE SaveAll(save_ad(table, Head(list)), Tail(list))

\* one round of autoru's _warmup_if_needed up to its asyncio.sleep
WarmupRun(t, out, left) ==
    LET o == collect_ads(watch_url, out)
    IN  IF o.raise
        THEN Res(Done("exc"), ads, NoTick)
        ELSE [Res([t EXCEPT !.pc = "warmup_sleep", !.warm = left - 1],
                  SaveAll(ads, o.list), NoTick) EXCEPT !.saved = o.list]

\* what follows the "started" message: autoru warms up an empty table first
AfterNotify(t, out) ==
    IF svc = "autoru" /\ Len(ads) = 0 /\ cfg.warmup_runs > 0
    THEN WarmupRun(t, out, cfg.warmup_runs)
    ELSE EnterLoop(t, out)

RECURSIVE Counted(_, _)
Counted(n, list) ==
    IF list = <<>> THEN n
    ELSE Counted([n EXCEPT ![Head(list)] = Min(@ + 1, MaxCount)], Tail(list))

\* a step of task i ends in r: the task, the table and the observations
Commit(i, r) ==
    LET disp == r.t.pc = "send_ad"
    IN  /\ tasks' = [tasks EXCEPT ![i] = r.t]
        /\ ads' = r.ads
        /\ sent' = IF disp THEN [sent EXCEPT ![r.t.cur] = Min(@ + 1, MaxCount)] ELSE sent
        /\ saves' = Counted(saves, r.saved)
        /\ sentLocked' = (sentLocked \/ (disp /\ is_locked(expired_lock)))
        /\ tick' = IF r.t.pc = "done" THEN NoTick
                   ELSE IF disp THEN [r.tick EXCEPT !.sentq = Append(@, r.t.cur)]
                   ELSE r.tick
        /\ UNCHANGED <<cfgVars, now, expiry_at, expired_lock, watch_url, chat_id,
                       up, task, stop_event, evset, mode, hnd, wd>>

\* _run from its first line to its first await
TaskBegin(i, out) ==
    /\ up
    /\ tasks[i].pc = "created"
    /\ Commit(i, IF chat_id # None
                 THEN Res([tasks[i] EXCEPT !.pc = "notify_start", !.chat = chat_id],
                          ads, tick)
                 ELSE AfterNotify(tasks[i], out))

\* (variant: without the try/except around the "started" message)
NotifyDoneRaises(i, ok, out) ==
    /\ up
    /\ tasks[i].pc = "notify_start"
    /\ Commit(i, IF ok THEN AfterNotify(tasks[i], out) ELSE Res(Done("exc"), ads, NoTick))

\* the "started" message was sent (ok) or failed: the except prints a
\* warning, and both ways _run goes on
NotifyDone(i, ok, out) ==
    /\ up
    /\ tasks[i].pc = "notify_start"
    /\ Commit(i, AfterNotify(tasks[i], out))

WarmupSleepDone(i, out) ==
    /\ up
    /\ tasks[i].pc = "warmup_sleep"
    /\ Commit(i, IF tasks[i].warm > 0
                 THEN WarmupRun(tasks[i], out, tasks[i].warm)
                 ELSE Res([tasks[i] EXCEPT !.pc = "warmup_notify"], ads, tick))

WarmupNotifyDone(i, out) ==
    /\ up
    /\ tasks[i].pc = "warmup_notify"
    /\ Commit(i, EnterLoop(tasks[i], out))

\* One of the loop's two `asyncio.wait_for(stop_event.wait(), timeout=...)`
\* ends, by timeout or by the event.  After the sleep that closes a tick the
\* loop continues at its top.  After the wait of the `if not url or not
\* chat_id` branch only a timeout continues at the top: with the event set
\* the code goes on to collect_ads.
WaitDone(i, out) ==
    /\ up
    /\ tasks[i].pc \in {"sleep", "idle_wait"}
    /\ Commit(i, IF tasks[i].pc = "idle_wait" /\ evset[tasks[i].ev]
                 THEN Fetch(tasks[i], tasks[i].url, out)
                 ELSE LoopTop(tasks[i], out))

\* (variant: on to the next ad with no row written)
SavedNoRow(t) == Res(NextAd(t, ads), ads, tick)

\* `self.store.save_ad(ad)` after _send_ad returned, and on to the next ad
Saved(t) ==
    LET table == save_ad(ads, t.cur)
    IN  [Res(NextAd(t, table), table, [tick EXCEPT !.savedq = Append(@, t.cur)])
         EXCEPT !.saved = <<t.cur>>]

\* the try/except around one ad caught an exception: on to the next ad
Skipped(t) == Res(NextAd(t, ads), ads, tick)

\* (variant: without the try/except around one ad, a failed dispatch is
\* caught by the except around the loop)
SendFailedAborts(t) == Res(Done("loop_error"), ads, NoTick)

\* the dispatcher's last call, send_message, failed: Drom and youla print
\* a warning inside _send_ad, autoru lets the exception out of _send_ad
SendFailed(t) == IF svc = "autoru" THEN Skipped(t) ELSE Saved(t)

\* (variant: _send_ad without the `return` after send_photo)
SendAdDoneNoReturn(i, img, ok) ==
    /\ up
    /\ tasks[i].pc = "send_ad"
    /\ svc = "autoru" => img = tasks[i].img
    /\ Commit(i, IF img
                 THEN Res([tasks[i] EXCEPT !.pc = "send_message"], ads, tick)
                 ELSE IF ok THEN Saved(tasks[i]) ELSE SendFailed(tasks[i]))

\* the first transport call of _send_ad ends: send_photo when the ad has an
\* image (autoru: a screenshot), else send_message
SendAdDone(i, img, ok) ==
    /\ up
    /\ tasks[i].pc = "send_ad"
    /\ svc = "autoru" => img = tasks[i].img
    /\ Commit(i, IF img
                 THEN IF ok THEN Saved(tasks[i])
                      ELSE Res([tasks[i] EXCEPT !.pc = "send_message"], ads, tick)
                 ELSE IF ok THEN Saved(tasks[i]) ELSE SendFailed(tasks[i]))

\* the send_message that follows a failed send_photo ends
SendMessageDone(i, ok) ==
    /\ up
    /\ tasks[i].pc = "send_message"
    /\ Commit(i, IF ok THEN Saved(tasks[i]) ELSE SendFailed(tasks[i]))

\* autoru: the posting date found on the ad's page, as its age in days
MaxAge == 1
NoDate == -1
Ages   == {NoDate} \cup 0..MaxAge

\* (variant: an ad without a date counts as fresh)
is_freshNoDate(created, fresh_days) ==
    IF created = NoDate THEN TRUE ELSE 0 <= created /\ created <= fresh_days

is_fresh(created, fresh_days) ==
    IF created = NoDate THEN FALSE ELSE 0 <= created /\ created <= fresh_days

\* "[skip stale] ... created=None": the candidates of the current tick
\* that the filter dropped because no posting date was found
SkipStale(r, id, created) ==
    IF created = NoDate THEN [r EXCEPT !.tick.undated = @ \cup {id}] ELSE r

\* (variant: save_ad before _send_ad)
DetailsDoneSavesFirst(i, created, shot) ==
    /\ up
    /\ tasks[i].pc = "details"
    /\ shot => cfg.send_screenshot
    /\ Commit(i, IF cfg.fresh_days >= 0 /\ ~is_fresh(created, cfg.fresh_days)
                 THEN SkipStale(Saved(tasks[i]), tasks[i].cur, created)
                 ELSE [Res([tasks[i] EXCEPT !.pc = "send_ad", !.img = shot],
                           save_ad(ads, tasks[i].cur), tick)
                       EXCEPT !.saved = <<tasks[i].cur>>])

\* autoru: fetch_ad_details_sync returned (screenshot_path, created)
DetailsDone(i, created, shot) ==
    /\ up
    /\ tasks[i].pc = "details"
    /\ shot => cfg.send_screenshot
    /\ Commit(i, IF cfg.fresh_days >= 0 /\ ~is_fresh(created, cfg.fresh_days)
                 THEN SkipStale(Saved(tasks[i]), tasks[i].cur, created)
                 ELSE Res([tasks[i] EXCEPT !.pc = "send_ad", !.img = shot], ads, tick))

\* ------------------------------------------------------- start and stop
\* (variant: the handlers without their expiry guard)
RefusedNever(lock, t, exp) == FALSE

\* the guard of menu_button and text_message: `locked or (expiry and now >= expiry)`
Refused(lock, t, exp) == is_locked(lock) \/ Expired(t, exp)

\* A finished task that neither ParserService._task nor a waiting stop()
\* refers to is garbage: its record and its event are dropped.
Collect(ts, keep) ==
    [i \in TaskIds |-> IF ts[i].pc = "done" /\ i \notin keep THEN NoTask ELSE ts[i]]

Awaited == (IF hnd.aw = None THEN {} ELSE {hnd.aw}) \cup (IF wd.aw = None THEN {} ELSE {wd.aw})

\* ids no task and no event in use has (the old self._task, when finished
\* and not awaited, is released by the assignment in start)
FreeIds ==
    {i \in TaskIds : /\ Collect(tasks, Awaited)[i].pc = "none"
                     /\ \A j \in TaskIds : Live(tasks[j]) => tasks[j].ev # i}

\* (variant: start() that creates no task)
startNothing == UNCHANGED svcVars

\* ParserService.start(): nothing when running, else a new event and a new task
start ==
    IF is_running
    THEN UNCHANGED svcVars
    ELSE /\ FreeIds # {}
         /\ LET new == CHOOSE i \in FreeIds : \A j \in FreeIds : i <= j
            IN  /\ task' = new
                /\ stop_event' = new
                /\ tasks' = [Collect(tasks, Awaited) EXCEPT ![new] = NewTask]
                /\ evset' = [evset EXCEPT ![new] = FALSE]

\* the awaits at which a task can stay longer than stop() waits: transport
\* calls, the detail fetch in a thread, the warm-up pause.  (A task waiting
\* on its stop event wakes as soon as stop() has set it.)
SlowAwaits == {"notify_start", "warmup_sleep", "warmup_notify", "details",
               "send_ad", "send_message"}

\* (variant: stop() that sets the event and does not await the task)
wait_forNoWait(aw, timeout) == IF timeout THEN "waiting" ELSE "returned"

\* `await asyncio.wait_for(self._task, timeout=self.interval + 5)` for the
\* task aw: "waiting" while the task runs and the timeout has not passed;
\* "returned" when the task ended, or when the timeout passed, which
\* cancels the task and is caught as TimeoutError; "raised" when the task
\* ended with an exception or was cancelled by another waiter.
wait_for(aw, timeout) ==
    IF tasks[aw].pc = "done"
    THEN IF timeout THEN "waiting"
         ELSE IF tasks[aw].res \in {"exc", "cancelled"} THEN "raised" ELSE "returned"
    ELSE IF timeout /\ tasks[aw].pc \in SlowAwaits THEN "returned" ELSE "waiting"

\* (variant: a timeout that leaves the awaited task running, as
\* asyncio.wait or a shielded task would)
CancelledNot(aw, timeout) == tasks

\* the tasks after wait_for: a timeout cancels the awaited task
Cancelled(aw, timeout) ==
    IF timeout THEN [tasks EXCEPT ![aw] = Done("cancelled")] ELSE tasks

\* (variant: stop() without `self._stop_event.set()`)
StopSignalNone == evset

\* stop() up to its await: `self._stop_event.set()`
StopSignal == [evset EXCEPT ![stop_event] = TRUE]

\* ---------------------------------------------------------------- handlers
\* Updates are processed one after another; the reply a handler sends last
\* is still in flight until the next update is taken.
HandlerFree == hnd.pc \notin {"stop_expired", "stop_toggle"}

Reply(r) == [IdleHnd EXCEPT !.pc = r]

\* the reply to an update of chat c (update.effective_chat)
ReplyTo(c, r) == [IdleHnd EXCEPT !.pc = r, !.chat = c]

\* (variant: show_menu without `if not store.get_kv(KEY_CHAT_ID)`)
CmdStartRebinds(c) ==
    /\ up /\ HandlerFree
    /\ chat_id' = c
    /\ hnd' = ReplyTo(c, "reply_menu")
    /\ UNCHANGED <<cfgVars, now, expiry_at, expired_lock, watch_url, ads, up,
                   svcVars, mode, wd, obsVars>>

\* /start: show_menu binds the chat of the first user and sends the menu
CmdStart(c) ==
    /\ up /\ HandlerFree
    /\ chat_id' = IF chat_id = None THEN c ELSE chat_id
    /\ hnd' = ReplyTo(c, "reply_menu")
    /\ UNCHANGED <<cfgVars, now, expiry_at, expired_lock, watch_url, ads, up,
                   svcVars, mode, wd, obsVars>>

\* menu_button, data == BTN_TOGGLE
CmdToggle ==
    /\ up /\ HandlerFree
    /\ LET locked  == is_locked(expired_lock)
           running == is_running
       IN  IF Refused(expired_lock, now, expiry_at)
           THEN IF running
                THEN /\ evset' = StopSignal
                     /\ hnd' = [pc |-> "stop_expired", locked |-> locked, aw |-> task,
                                 chat |-> None]
                     /\ UNCHANGED <<expired_lock, task, stop_event, tasks>>
                ELSE /\ expired_lock' = IF ~locked THEN lock_forever(expired_lock)
                                        ELSE expired_lock
                     /\ hnd' = [Reply("reply_expired") EXCEPT !.locked = locked]
                     /\ UNCHANGED svcVars
           ELSE IF watch_url = None
           THEN hnd' = Reply("reply_need_url") /\ UNCHANGED <<expired_lock, svcVars>>
           ELSE IF chat_id = None
           THEN hnd' = Reply("reply_need_chat") /\ UNCHANGED <<expired_lock, svcVars>>
           ELSE IF running
           THEN /\ evset' = StopSignal
                /\ hnd' = [pc |-> "stop_toggle", locked |-> locked, aw |-> task,
                            chat |-> None]
                /\ UNCHANGED <<expired_lock, task, stop_event, tasks>>
           ELSE /\ start
                /\ hnd' = Reply("reply_started")
                /\ UNCHANGED expired_lock
    /\ UNCHANGED <<cfgVars, now, expiry_at, watch_url, chat_id, ads, up,
                   mode, wd, obsVars>>

\* the stop() awaited by menu_button returns or raises
HandlerStopReturn(timeout) ==
    /\ up
    /\ hnd.pc \in {"stop_expired", "stop_toggle"}
    /\ wait_for(hnd.aw, timeout) # "waiting"
    /\ tick' = IF timeout THEN NoTick ELSE tick
    /\ IF wait_for(hnd.aw, timeout) = "raised"
       THEN /\ hnd' = Reply("error")
            /\ tasks' = Cancelled(hnd.aw, timeout)
            /\ UNCHANGED <<expired_lock, task, stop_event>>
       ELSE /\ tasks' = Cancelled(hnd.aw, timeout)
            /\ task' = None
            /\ stop_event' = None
            /\ IF hnd.pc = "stop_expired"
               THEN /\ expired_lock' = IF ~hnd.locked THEN lock_forever(expired_lock)
                                       ELSE expired_lock
                    /\ hnd' = [Reply("reply_expired") EXCEPT !.locked = hnd.locked]
               ELSE /\ hnd' = Reply("reply_stopped")
                    /\ UNCHANGED expired_lock
    /\ UNCHANGED <<cfgVars, now, expiry_at, watch_url, chat_id, ads, up,
                   evset, mode, wd, sent, saves, sentLocked>>

\* menu_button, data == BTN_SET_URL, pressed in chat c
CmdSetUrl(c) ==
    /\ up /\ HandlerFree
    /\ IF Refused(expired_lock, now, expiry_at)
       THEN hnd' = ReplyTo(c, "reply_url_expired") /\ UNCHANGED mode
       ELSE hnd' = ReplyTo(c, "reply_ask_url") /\ mode' = [mode EXCEPT ![c] = TRUE]
    /\ UNCHANGED <<cfgVars, now, storeVars, up, svcVars, wd, obsVars>>

\* (variant: text_message without its expiry guard)
CmdTextUnguarded(c, x) ==
    /\ up /\ HandlerFree
    /\ chat_id' = IF chat_id = None THEN c ELSE chat_id
    /\ IF mode[c]
       THEN /\ watch_url' = set_watch_url(watch_url, x)
            /\ hnd' = ReplyTo(c, IF sanitize_url(x) = None THEN "reply_url_bad"
                                  ELSE "reply_url_ok")
            /\ mode' = [mode EXCEPT ![c] = FALSE]
       ELSE /\ hnd' = ReplyTo(c, "reply_menu")
            /\ UNCHANGED <<watch_url, mode>>
    /\ UNCHANGED <<cfgVars, now, expiry_at, expired_lock, ads, up, svcVars,
                   wd, obsVars>>

\* text_message from chat c with text x
CmdText(c, x) ==
    /\ up /\ HandlerFree
    /\ IF Refused(expired_lock, now, expiry_at)
       THEN /\ hnd' = ReplyTo(c, "reply_text_expired")
            /\ UNCHANGED <<chat_id, watch_url, mode>>
       ELSE /\ chat_id' = IF chat_id = None THEN c ELSE chat_id
            /\ IF mode[c]
               THEN /\ watch_url' = set_watch_url(watch_url, x)
                    /\ hnd' = ReplyTo(c, IF sanitize_url(x) = None THEN "reply_url_bad"
                                          ELSE "reply_url_ok")
                    /\ mode' = [mode EXCEPT ![c] = FALSE]
               ELSE /\ hnd' = ReplyTo(c, "reply_menu")
                    /\ UNCHANGED <<watch_url, mode>>
    /\ UNCHANGED <<cfgVars, now, expiry_at, expired_lock, ads, up, svcVars,
                   wd, obsVars>>

\* ---------------------------------------------------------------- watchdog
\* (variant: an expiry_job whose guard never holds)
ShouldLatchNever(lock, t, exp) == FALSE

\* the guard of expiry_job: `not locked and expiry and now >= expiry`
ShouldLatch(lock, t, exp) == ~is_locked(lock) /\ Expired(t, exp)

\* (variant: expiry_job calling lock_forever before svc.stop())
WatchdogRunLockFirst ==
    /\ up
    /\ wd.pc = "idle"
    /\ IF ShouldLatch(expired_lock, now, expiry_at)
       THEN /\ expired_lock' = lock_forever(expired_lock)
            /\ IF is_running
               THEN /\ evset' = StopSignal
                    /\ wd' = [pc |-> "stopping", aw |-> task, log |-> "none"]
               ELSE /\ wd' = [IdleWd EXCEPT !.log = "info"]
                    /\ UNCHANGED evset
       ELSE UNCHANGED <<expired_lock, evset, wd>>
    /\ UNCHANGED <<cfgVars, now, expiry_at, watch_url, chat_id, ads, up,
                   task, stop_event, tasks, mode, hnd, obsVars>>

\* expiry_job up to its await, or to its end when nothing has to be stopped
WatchdogRun ==
    /\ up
    /\ wd.pc = "idle"
    /\ IF ShouldLatch(expired_lock, now, expiry_at)
       THEN IF is_running
            THEN /\ evset' = StopSignal
                 /\ wd' = [pc |-> "stopping", aw |-> task, log |-> "none"]
                 /\ UNCHANGED expired_lock
            ELSE /\ expired_lock' = lock_forever(expired_lock)
                 /\ wd' = [IdleWd EXCEPT !.log = "info"]
                 /\ UNCHANGED evset
       ELSE UNCHANGED <<expired_lock, evset, wd>>
    /\ UNCHANGED <<cfgVars, now, expiry_at, watch_url, chat_id, ads, up,
                   task, stop_event, tasks, mode, hnd, obsVars>>

\* what expiry_job's `except Exception` makes of an exception raised by
\* stop(): the exception of the task is caught and printed as a warning,
\* asyncio.CancelledError (a BaseException) is not caught and leaves the job
Caught(res) == IF res = "cancelled" THEN "escaped" ELSE "warn"

\* the stop() awaited by expiry_job returns, then lock_forever; or it
\* raises, which ends the run in the job's except or in the job runner
WatchdogStopReturn(timeout) ==
    /\ up
    /\ wd.pc = "stopping"
    /\ wait_for(wd.aw, timeout) # "waiting"
    /\ tick' = IF timeout THEN NoTick ELSE tick
    /\ wd' = [IdleWd EXCEPT !.log = IF wait_for(wd.aw, timeout) = "raised"
                                     THEN Caught(tasks[wd.aw].res)
                                     ELSE "info_stopped"]
    /\ IF wait_for(wd.aw, timeout) = "raised"
       THEN /\ tasks' = Cancelled(wd.aw, timeout)
            /\ UNCHANGED <<expired_lock, task, stop_event>>
       ELSE /\ tasks' = Cancelled(wd.aw, timeout)
            /\ task' = None
            /\ stop_event' = None
            /\ expired_lock' = lock_forever(expired_lock)
    /\ UNCHANGED <<cfgVars, now, expiry_at, watch_url, chat_id, ads, up,
                   evset, mode, hnd, sent, saves, sentLocked>>

\* ------------------------------------------------------------------- Next
\* The steps of a bot that is used from the chats `chats`, which send it the
\* texts `texts`.
Bot(chats, texts) ==
    \/ \E d \in 0..MaxDays : Main(d)
    \/ Kill
    \/ Tick
    \/ \E c \in chats : CmdStart(c)
    \/ CmdToggle
    \/ \E c \in chats : CmdSetUrl(c)
    \/ \E c \in chats, x \in texts : CmdText(c, x)
    \/ \E t \in BOOLEAN : HandlerStopReturn(t)
    \/ WatchdogRun
    \/ \E t \in BOOLEAN : WatchdogStopReturn(t)
    \/ \E i \in TaskIds, out \in FetchOutcomes : TaskBegin(i, out)
    \/ \E i \in TaskIds, ok \in BOOLEAN, out \in FetchOutcomes : NotifyDone(i, ok, out)
    \/ \E i \in TaskIds, out \in FetchOutcomes : WarmupSleepDone(i, out)
    \/ \E i \in TaskIds, out \in FetchOutcomes : WarmupNotifyDone(i, out)
    \/ \E i \in TaskIds, out \in FetchOutcomes : WaitDone(i, out)
    \/ \E i \in TaskIds, img \in BOOLEAN, ok \in BOOLEAN : SendAdDone(i, img, ok)
    \/ \E i \in TaskIds, ok \in BOOLEAN : SendMessageDone(i, ok)
    \/ \E i \in TaskIds, a \in Ages, shot \in BOOLEAN : DetailsDone(i, a, shot)

\* the chat of a bot that has one user
OneChat == {1}

\* a bot with one user, who sends texts of the bot's own site
Next == Bot(OneChat, HostTexts)

Spec == Init /\ [][Next]_vars

\* a bot with one user, who sends any text
UrlNext == Bot(OneChat, TextInputs)

\* --warmup-runs and --send-screenshot given on autoru's command line
InitAutoru ==
    /\ Init
    /\ svc = "autoru"
    /\ cfg.warmup_runs > 0

UrlSpec == InitAutoru /\ [][UrlNext]_vars

\* a step of the polling task
TaskStep ==
    \/ \E i \in TaskIds, out \in FetchOutcomes :
          \/ TaskBegin(i, out) \/ WarmupSleepDone(i, out)
          \/ WarmupNotifyDone(i, out) \/ WaitDone(i, out)
          \/ \E ok \in BOOLEAN : NotifyDone(i, ok, out)
    \/ \E i \in TaskIds, img \in BOOLEAN, ok \in BOOLEAN : SendAdDone(i, img, ok)
    \/ \E i \in TaskIds, ok \in BOOLEAN : SendMessageDone(i, ok)
    \/ \E i \in TaskIds, a \in Ages, shot \in BOOLEAN : DetailsDone(i, a, shot)

\* The scheduling of a process that stays up: the job queue runs expiry_job
\* every 30 seconds (run_repeating in main), the event loop resumes a
\* coroutine whose await has completed, and every await of the polling task
\* and of stop() (a wait_for with a timeout) completes.  expiry_job, stop()
\* and start() are the same code in the three bots; the bot taken here is the
\* one whose polling task has the most awaits (autoru with warm-up and
\* screenshots on).
FairSpec ==
    /\ InitAutoru
    /\ [][Next]_vars
    /\ WF_vars(WatchdogRun)
    /\ WF_vars(\E t \in BOOLEAN : WatchdogStopReturn(t))
    /\ WF_vars(TaskStep)

\* the autoru bot used from every chat
ChatNext == Bot(Chats, HostTexts)

ChatSpec == InitAutoru /\ [][ChatNext]_vars

\* ParserService.start() called, after main(), on a store that holds neither
\* a URL nor a chat: the case the `if not url or not chat_id` branch of _run
\* is written for (the toggle handler starts the service only with both)
InitStarted ==
    /\ svc \in Services
    /\ cfg \in IF svc = "autoru" THEN Configs ELSE {NoConfig}
    /\ now = 1
    /\ expiry_at = ensure_expiry_once(None, "absent", 1, MaxDays)[1]
    /\ expired_lock = ensure_expiry_once(None, "absent", 1, MaxDays)[2]
    /\ watch_url = None
    /\ chat_id = None
    /\ ads = <<>>
    /\ up = TRUE
    /\ task = 1
    /\ stop_event = 1
    /\ tasks = [i \in TaskIds |-> IF i = 1 THEN NewTask ELSE NoTask]
    /\ evset = [i \in TaskIds |-> FALSE]
    /\ mode = [c \in Chats |-> FALSE]
    /\ hnd = IdleHnd
    /\ wd = IdleWd
    /\ sent = [i \in Ids |-> 0]
    /\ saves = [i \in Ids |-> 0]
    /\ tick = NoTick
    /\ sentLocked = FALSE

\* the bot with its service started before a URL or a chat is stored
LoopSpec == InitStarted /\ [][Next]_vars

\* ParserService.start() called by a front end other than the toggle
\* handler while a stop() is awaiting the old task
CallStart ==
    /\ up
    /\ Awaited # {}
    /\ start
    /\ UNCHANGED <<cfgVars, now, storeVars, up, mode, hnd, wd, obsVars>>

\* the Drom bot, whose service is also used by such a caller
InitDrom ==
    /\ Init
    /\ svc = "Drom"

ApiNext ==
    \/ \E d \in 0..MaxDays : Main(d)
    \/ \E c \in OneChat : CmdStart(c)
    \/ CmdToggle
    \/ \E c \in OneChat : CmdSetUrl(c)
    \/ \E c \in OneChat, x \in HostTexts : CmdText(c, x)
    \/ \E t \in BOOLEAN : HandlerStopReturn(t)
    \/ \E i \in TaskIds, out \in FetchOutcomes : TaskBegin(i, out)
    \/ \E i \in TaskIds, ok \in BOOLEAN, out \in FetchOutcomes : NotifyDone(i, ok, out)
    \/ \E i \in TaskIds, out \in FetchOutcomes : WaitDone(i, out)
    \/ \E i \in TaskIds, img \in BOOLEAN, ok \in BOOLEAN : SendAdDone(i, img, ok)
    \/ \E i \in TaskIds, ok \in BOOLEAN : SendMessageDone(i, ok)
    \/ CallStart

ApiSpec == InitDrom /\ [][ApiNext]_vars

\* ================================================================ claims
Idle == ~is_running /\ \A i \in TaskIds : ~Live(tasks[i])

RowsOf(table, id) == Cardinality({k \in 1..Len(table) : table[k] = id})

\* q can be had from s by leaving elements out
RECURSIVE IsSubseq(_, _)
IsSubseq(q, s) ==
    IF q = <<>> THEN TRUE
    ELSE IF s = <<>> THEN FALSE
    ELSE IF Head(q) = Head(s) THEN IsSubseq(Tail(q), Tail(s))
    ELSE IsSubseq(q, Tail(s))

\* the for loop of the current tick has reached the sleep that closes it
TickComplete == tick.list # <<>> /\ \E i \in TaskIds : tasks[i].pc = "sleep"

\* C1: every ad id is passed to _send_ad at most once over the lifetime of
\* the store, whatever lists the ticks return.
AtMostOnce == \A id \in Ids : sent[id] <= 1

\* C2: in every reachable state, a store whose lock is "true" goes with an
\* orchestrator that is not running: is_running() is false and no polling
\* task is live.
LockedImpliesIdle == is_locked(expired_lock) => Idle

\* the toggle handler stopped a running task after expiry and latched the lock
LockedByToggleAfterStop ==
    /\ is_locked(expired_lock)
    /\ hnd.pc = "reply_expired" /\ ~hnd.locked
    /\ \E i \in TaskIds : tasks[i].pc = "done"
    /\ \E id \in Ids : sent[id] > 0

\* C3: the lock starts not set, and no step (lock_forever, ensure_expiry_once
\* of a later process start, toggle, set-URL, watchdog) takes a set lock back.
LockMonotone ==
    [][/\ is_locked(expired_lock) => is_locked(expired_lock')
       /\ (expiry_at = None => ~is_locked(expired_lock))
       /\ (is_locked(expired_lock) => lock_forever(expired_lock) = expired_lock)]_vars

\* a process started on a locked store: no handler and no watchdog run of
\* this process has acted yet, so main() found the lock set
RestartedLocked ==
    /\ is_locked(expired_lock) /\ up
    /\ hnd.pc = "idle" /\ wd.pc = "idle" /\ wd.log = "none"

\* C4: a toggle (the only caller of start()) handled while the store is
\* locked creates no task and leaves the orchestrator and the store as they are.
StartRefusedWhenLocked ==
    [][(CmdToggle /\ is_locked(expired_lock))
         => /\ UNCHANGED <<svcVars, storeVars, sent>>
            /\ ~is_running'
            /\ hnd'.pc = "reply_expired"]_vars

\* the toggle handler found the lock set and answered with the refusal
ToggleFoundLocked == up /\ hnd.pc = "reply_expired" /\ hnd.locked

\* C5: in the step that sets the lock the orchestrator is idle afterwards,
\* and when it was running before that step, the step is the return of the
\* stop() that expiry_job or the toggle handler awaited.
StopBeforeLock ==
    [][(~is_locked(expired_lock) /\ is_locked(expired_lock'))
         => /\ Idle'
            /\ is_running => (wd.pc = "stopping" \/ hnd.pc = "stop_expired")]_vars

\* expiry_job stopped a running orchestrator and then latched the lock
WatchdogStoppedThenLocked ==
    /\ is_locked(expired_lock) /\ wd.log = "info_stopped" /\ task = None

\* C6: _send_ad is never called in a state whose lock is set, also when the
\* stop() before the lock returned by its timeout; no transport call of
\* _send_ad is in flight under a set lock.
NoSendWhileLocked ==
    /\ ~sentLocked
    /\ is_locked(expired_lock)
         => \A i \in TaskIds : tasks[i].pc \notin {"send_ad", "send_message"}

\* the lock was latched after a stop() that timed out and cancelled the task
LockedAfterStopTimeout ==
    /\ is_locked(expired_lock)
    /\ \E i \in TaskIds : tasks[i].res = "cancelled"
    /\ \E id \in Ids : sent[id] > saves[id]

\* C7: once the clock has passed the stored expiry, a process that stays up
\* reaches a set lock; from then on the lock stays set and the orchestrator
\* stays idle.
PermanentShutdown ==
    /\ (up /\ Expired(now, expiry_at)) ~> (is_locked(expired_lock) \/ ~up)
    /\ [](is_locked(expired_lock) => Idle)
    /\ [][is_locked(expired_lock) => is_locked(expired_lock')]_vars

\* the lock was latched by the watchdog in a process that had been running
\* the orchestrator past the expiry
ShutdownReached ==
    /\ up /\ is_locked(expired_lock) /\ Idle /\ wd.log \in {"info", "info_stopped"}
    /\ now >= expiry_at /\ \E id \in Ids : sent[id] > 0

\* C8: within one tick the ids are dispatched and recorded in the reverse of
\* the order collect_ads returned them; a tick of distinct unseen ids (Drom,
\* youla) ends with all of them dispatched and recorded in that order.
OldestFirst ==
    /\ IsSubseq(tick.sentq, Reverse(tick.list))
    /\ IsSubseq(tick.savedq, Reverse(tick.list))
    /\ (TickComplete /\ tick.allnew /\ svc # "autoru")
         => /\ tick.sentq = Reverse(tick.list)
            /\ tick.savedq = Reverse(tick.list)

\* a tick of MaxItems distinct unseen ids completed
FullTickDelivered ==
    /\ svc # "autoru"
    /\ TickComplete /\ tick.allnew /\ Len(tick.list) = MaxItems
    /\ Len(tick.sentq) = MaxItems /\ Len(tick.savedq) = MaxItems

\* C9: an id passed to save_ad once or more has exactly one row and is not
\* new any longer; one more save_ad leaves the table as it is.
IdempotentRecording ==
    \A id \in Ids :
        /\ saves[id] > 0 => (RowsOf(ads, id) = 1 /\ ~is_new_ad(ads, id))
        /\ saves[id] = 0 => (RowsOf(ads, id) = 0 /\ is_new_ad(ads, id))
        /\ save_ad(save_ad(ads, id), id) = save_ad(ads, id)

\* save_ad was called twice for one id
SavedTwice == \E id \in Ids : saves[id] >= 2 /\ RowsOf(ads, id) = 1

\* C10: a failure of the extraction step, the launch of the browser driver
\* included, never ends the polling task.
AdapterFailureRecovered == \A i \in TaskIds : tasks[i].res # "loop_error"

\* C11: a polling task ends only after a stop() has set its stop event (the
\* toggle's or the watchdog's): no error ends it on its own.
TaskEndsOnlyByStop == \A i \in TaskIds : tasks[i].pc = "done" => evset[i]

\* C12: every id whose dispatch attempt of the current tick is over, with
\* the delivery succeeded or failed, is in table ads.
RecordedAfterDispatch ==
    \A k \in 1..Len(tick.sentq) :
        \/ ~is_new_ad(ads, tick.sentq[k])
        \/ /\ k = Len(tick.sentq)
           /\ \E i \in TaskIds : /\ tasks[i].pc \in {"send_ad", "send_message"}
                                 /\ tasks[i].cur = tick.sentq[k]

InBatch == {"details", "send_ad", "send_message"}

RunsNow == task # None /\ Live(tasks[task])

AtMostOneLive == Cardinality({i \in TaskIds : Live(tasks[i])}) <= 1

\* the toggle handler and expiry_job both await stop() of the same live task
TwoStopsOneTask ==
    /\ hnd.pc = "stop_expired" /\ wd.pc = "stopping"
    /\ hnd.aw = wd.aw /\ Live(tasks[hnd.aw])

StopDuringSleep ==
    [][\A i \in TaskIds :
         (tasks[i].pc = "sleep" /\ evset[tasks[i].ev] /\ tasks'[i] # tasks[i] /\ up')
           => /\ tasks'[i] = Done("stopped")
              /\ tick' = NoTick /\ sent' = sent /\ ads' = ads]_vars

\* stop() was called by the toggle while the task is in its inter-tick sleep
StopCalledInSleep ==
    /\ hnd.pc = "stop_toggle"
    /\ tasks[hnd.aw].pc = "sleep" /\ evset[tasks[hnd.aw].ev]
    /\ Len(ads) > 0

\* C18: a stored expiry never changes; the step that stores it is main()'s
\* ensure_expiry_once on a store without one, which writes now + days and the
\* lock "false"; main() on a store with an expiry leaves expiry and lock alone.
ExpiryWrittenOnce ==
    [][/\ expiry_at # None => expiry_at' = expiry_at
       /\ (expiry_at = None /\ expiry_at' # None)
            => /\ \E d \in 0..MaxDays : Main(d) /\ expiry_at' = now + d
               /\ expired_lock' = "false"
       /\ \A d \in 0..MaxDays :
            (Main(d) /\ expiry_at # None) => expired_lock' = expired_lock]_vars

\* a process started again on a store that holds an expiry: ads were
\* dispatched by an earlier process, no handler of this one has run
RestartedWithExpiry ==
    /\ up /\ hnd.pc = "idle" /\ expiry_at # None /\ ~is_locked(expired_lock)
    /\ \E id \in Ids : sent[id] > 0

\* C19: a text sent as the watched URL is accepted only when its host is one
\* of the bot's allowed domains and it holds none of the forbidden
\* characters, and then the stored URL becomes that text; a rejected text
\* leaves the stored URL, expiry, lock and ads as they were.
SetUrlAcceptsAllowedOnly ==
    [][\A c \in Chats, x \in TextInputs :
         (CmdText(c, x) /\ mode[c] /\ ~Refused(expired_lock, now, expiry_at))
           => /\ hnd'.pc = "reply_url_ok"
                   => x.host_ok /\ ~x.forbidden /\ watch_url' = x.u
              /\ hnd'.pc = "reply_url_bad"
                   => UNCHANGED <<watch_url, expiry_at, expired_lock, ads>>]_vars

\* a task of _run that is sending to the chat it read from the store
Sending == {"notify_start", "send_ad", "send_message"}

StaleRecordedNotSent ==
    [][/\ \A i \in TaskIds, a \in Ages, shot \in BOOLEAN :
            (/\ DetailsDone(i, a, shot)
             /\ cfg.fresh_days >= 0
             /\ (a = NoDate \/ a > cfg.fresh_days))
              => /\ ~is_new_ad(ads', tasks[i].cur)
                 /\ saves'[tasks[i].cur] = Min(saves[tasks[i].cur] + 1, MaxCount)
                 /\ sent' = sent
                 /\ tasks'[i].pc \in {"send_ad", "send_message"}
                      => tasks'[i].cur # tasks[i].cur
       /\ \A id \in Ids : ~is_new_ad(ads, id) => sent'[id] = sent[id]]_vars

\* a tick of autoru has listed again, and passed over, an id that an earlier
\* tick recorded as stale without dispatching it
StaleSkippedLater ==
    /\ svc = "autoru" /\ cfg.fresh_days >= 0 /\ cfg.warmup_runs = 0
    /\ TickComplete /\ tick.savedq = <<>> /\ tick.sentq = <<>>
    /\ \E id \in Range(tick.list) :
         ~is_new_ad(ads, id) /\ sent[id] = 0 /\ saves[id] = 1

\* C22: one call of _send_ad makes at most two transport calls.  With an
\* image the first is send_photo: when it succeeds nothing else is sent,
\* when it fails one send_message for the same ad follows.  Without an image
\* the first and only call is send_message.  After the send_message, failed
\* or not, the dispatch is over: the task is at another candidate or at the
\* sleep, never in a transport call for the same ad again.
DispatcherFallback ==
    [][/\ \A i \in TaskIds, img \in BOOLEAN, ok \in BOOLEAN :
            SendAdDone(i, img, ok)
              => /\ (img /\ ~ok)
                      => /\ tasks'[i].pc = "send_message"
                         /\ tasks'[i].cur = tasks[i].cur
                         /\ UNCHANGED <<sent, ads>>
                 /\ (~img \/ ok)
                      => /\ tasks'[i].pc # "send_message"
                         /\ tasks'[i].pc = "send_ad" => tasks'[i].cur # tasks[i].cur
                 /\ (img /\ ok) => ~is_new_ad(ads', tasks[i].cur)
       /\ \A i \in TaskIds, ok \in BOOLEAN :
            SendMessageDone(i, ok)
              => /\ tasks'[i].pc # "send_message"
                 /\ tasks'[i].pc = "send_ad" => tasks'[i].cur # tasks[i].cur
       /\ \A i \in TaskIds :
            (tasks'[i].pc = "send_message" /\ tasks[i].pc # "send_message")
              => tasks[i].pc = "send_ad"]_vars

\* send_photo failed and the plain message for the same ad is being sent
FallbackInFlight ==
    \E i \in TaskIds :
        /\ tasks[i].pc = "send_message"
        /\ tick.sentq # <<>> /\ tick.sentq[Len(tick.sentq)] = tasks[i].cur
        /\ sent[tasks[i].cur] = 1 /\ is_new_ad(ads, tasks[i].cur)

\* C23: the toggle handler refuses (answers "expired", after stopping a
\* running task) exactly when the lock is "true", or an expiry is stored and
\* now >= expiry; expiry_job acts (stops a running task or latches the lock)
\* exactly when the lock is not "true", an expiry is stored and
\* now >= expiry, and otherwise changes nothing.
SameExpiryGuard ==
    [][/\ CmdToggle
            => LET refuse == \/ expired_lock = "true"
                             \/ (expiry_at # None /\ now >= expiry_at)
               IN  /\ refuse <=> hnd'.pc \in {"reply_expired", "stop_expired"}
                   /\ refuse => hnd'.pc # "reply_started" /\ task' = task
       /\ WatchdogRun
            => LET latch == /\ expired_lock # "true"
                            /\ expiry_at # None /\ now >= expiry_at
               IN  /\ latch <=> (wd'.pc = "stopping" \/ expired_lock' # expired_lock)
                   /\ (latch /\ ~is_running) => expired_lock' = "true"
                   /\ ~latch => UNCHANGED <<expired_lock, svcVars, wd>>]_vars

\* the toggle was refused, and the lock latched by it, at the instant
\* now = expiry
RefusedAtExpiryInstant ==
    /\ up /\ now = expiry_at
    /\ hnd.pc = "reply_expired" /\ ~hnd.locked /\ is_locked(expired_lock)
    /\ wd.log = "none"

\* C24: a toggle handled when an expiry is stored, now >= expiry and the
\* lock is not "true" starts nothing; with no task running it sets the lock
\* in the same step; with a task running it calls stop(), and when that
\* stop() is over the lock is "true" and the orchestrator is not running.
OpportunisticLatch ==
    [][/\ (CmdToggle /\ ~is_locked(expired_lock) /\ Expired(now, expiry_at))
            => /\ task' = task /\ hnd'.pc # "reply_started"
               /\ IF is_running
                  THEN hnd'.pc = "stop_expired" /\ evset'[task]
                  ELSE is_locked(expired_lock')
       /\ \A t \in BOOLEAN :
            (HandlerStopReturn(t) /\ hnd.pc = "stop_expired")
              => is_locked(expired_lock') /\ ~is_running']_vars

\* C25: every step of the polling task that fetches (only the task moves:
\* it comes from its start, the "started" or "warm-up done" message or a
\* wait and goes on to the ads of a list or to the closing sleep) fetches
\* the URL stored at that moment: a URL stored by set_watch_url since the
\* previous tick is the one the next tick fetches.
FetchesStoredUrl ==
    [][\A i \in TaskIds :
          (/\ UNCHANGED <<cfgVars, now, expiry_at, expired_lock, watch_url, chat_id,
                          up, task, stop_event, evset, mode, hnd, wd>>
           /\ \A j \in TaskIds \ {i} : tasks'[j] = tasks[j]
           /\ tasks[i].pc \in {"created", "notify_start", "warmup_notify",
                               "sleep", "idle_wait"}
           /\ tasks'[i].pc \in {"details", "send_ad", "sleep"})
            => /\ watch_url # None /\ tick'.url = watch_url
               /\ Range(tick'.list) \subseteq Ids
               /\ tick'.changed <=> (tick.url # None /\ tick.url # watch_url)]_vars

\* a tick has fetched a URL other than the one the tick before it fetched
UrlChangedBetweenTicks ==
    /\ up /\ tick.changed /\ tick.url = watch_url /\ hnd.pc = "reply_url_ok"
    /\ \E i \in TaskIds : tasks[i].pc = "sleep" /\ task = i

AfterAttempt(id) ==
    \E i \in TaskIds : /\ tasks[i].cur = id /\ sent[id] > 0
                       /\ tasks[i].pc \in {"send_ad", "send_message"}

\* this step is the detail fetch of id returning a date that is_fresh rejects
StaleVerdict(id) ==
    \E i \in TaskIds, a \in Ages, shot \in BOOLEAN :
        /\ tasks[i].cur = id /\ cfg.fresh_days >= 0
        /\ ~is_fresh(a, cfg.fresh_days) /\ DetailsDone(i, a, shot)

\* this step is a round of autoru's warm-up: it dispatches nothing
WarmupRound ==
    /\ svc = "autoru" /\ cfg.warmup_runs > 0 /\ sent' = sent
    /\ \E i \in TaskIds : /\ tasks[i].pc \in {"created", "notify_start", "warmup_sleep"}
                          /\ tasks'[i].pc = "warmup_sleep"

\* C27 (as stated): an id gets its row in ads only in a step that ends a
\* dispatch attempt for it or that finds it stale; this includes the ids
\* autoru collects before the first tick of a run.
RecordedAfterAttemptOrStale ==
    [][\A id \in Ids : (is_new_ad(ads, id) /\ ~is_new_ad(ads', id))
                          => AfterAttempt(id) \/ StaleVerdict(id)]_vars

\* C27 (amended): an id gets its row in ads only in a step that ends a
\* dispatch attempt for it, that finds it stale, or that is a round of
\* autoru's warm-up, which records every collected id and dispatches none.
RecordedWithCause ==
    [][\A id \in Ids : (is_new_ad(ads, id) /\ ~is_new_ad(ads', id))
                          => AfterAttempt(id) \/ StaleVerdict(id) \/ WarmupRound]_vars

\* the warm-up has recorded an id that was never dispatched or found stale
WarmupRecordedUnsent ==
    /\ up /\ svc = "autoru" /\ cfg.warmup_runs > 0 /\ cfg.fresh_days < 0
    /\ \E i \in TaskIds : tasks[i].pc = "warmup_sleep"
    /\ \E id \in Ids : ~is_new_ad(ads, id) /\ sent[id] = 0 /\ saves[id] = 1

\* C28: no step, of the task, a handler, the watchdog, the clock, a kill or
\* a launch of the process, takes a row out of ads: the table after a step
\* starts with the table before it, so is_new_ad(id), once false, stays false.
SeenSetOnlyGrows ==
    [][/\ Len(ads) <= Len(ads') /\ SubSeq(ads', 1, Len(ads)) = ads
       /\ \A id \in Ids : ~is_new_ad(ads, id) => ~is_new_ad(ads', id)]_vars

\* the URL was changed between two ticks, and the later tick, at a time
\* after the first launch, has listed and passed over an id recorded before it
SeenAcrossUrlChange ==
    /\ up /\ tick.changed /\ TickComplete /\ tick.savedq = <<>>
    /\ expiry_at # None /\ now > expiry_at - MaxDays
    /\ \E id \in Range(tick.list) : ~is_new_ad(ads, id)

\* what _run reaches once the "started" message is behind it: the warm-up
\* or the loop; the task ends here only stopped or by a failed driver launch,
\* and with the event clear, both values stored and no warm-up due, the
\* first tick has fetched
LoopStarted(i, out) ==
    LET warm == svc = "autoru" /\ Len(ads) = 0 /\ cfg.warmup_runs > 0
    IN  /\ tasks'[i].pc \notin {"created", "notify_start"}
        /\ tasks'[i].pc = "done"
             => \/ tasks'[i].res = "stopped" /\ evset[stop_event]
                \/ out.raise
        /\ warm /\ ~out.raise => tasks'[i].pc = "warmup_sleep"
        /\ (~warm /\ ~evset[stop_event] /\ (watch_url = None \/ chat_id = None))
             => tasks'[i].pc = "idle_wait"
        /\ (~warm /\ ~evset[stop_event] /\ ~out.raise
              /\ watch_url # None /\ chat_id # None)
             => /\ tick'.list = out.list /\ tick'.url = watch_url
                /\ tasks'[i].pc \in {"details", "send_ad", "sleep"}

\* C29: a task that begins with a chat stored attempts one "started"
\* message to that chat and nothing else; when that attempt ends, sent or
\* failed, and when the task begins with no chat stored, _run goes on to its
\* loop (autoru: to its warm-up) all the same.
StartedBestEffort ==
    [][\A i \in TaskIds, out \in FetchOutcomes :
          /\ TaskBegin(i, out)
               => IF chat_id # None
                  THEN /\ tasks'[i].pc = "notify_start" /\ tasks'[i].chat = chat_id
                       /\ UNCHANGED <<ads, sent, tick>>
                  ELSE LoopStarted(i, out)
          /\ \A ok \in BOOLEAN : NotifyDone(i, ok, out) => LoopStarted(i, out)]_vars

\* a task begun with no chat stored is in its loop
LoopRunsUnbound ==
    /\ up /\ chat_id = None /\ task # None
    /\ tasks[task].pc = "idle_wait" /\ ~evset[tasks[task].ev]

\* C30: collect_ads runs off the event loop: the task is suspended while
\* the fetch is in progress (a state in which handlers and the watchdog can
\* step), so every step in which the task receives a fetched list starts
\* with the task awaiting that fetch.
FetchIsAwaited ==
    [][\A i \in TaskIds :
          (/\ UNCHANGED <<cfgVars, now, expiry_at, expired_lock, watch_url, chat_id,
                          up, task, stop_event, evset, mode, hnd, wd>>
           /\ \A j \in TaskIds \ {i} : tasks'[j] = tasks[j]
           /\ tasks[i].pc \notin {"details", "send_ad", "send_message", "none", "done"}
           /\ tasks'[i].pc \in {"details", "send_ad", "sleep"}
           /\ tick'.url # None /\ tick'.savedq = <<>>)
            => tasks[i].pc = "fetch"]_vars

OverlappingStopsReturn ==
    [][\A t \in BOOLEAN :
          /\ (HandlerStopReturn(t) /\ tasks[hnd.aw].res # "exc")
               => hnd'.pc # "error" /\ ~is_running'
          /\ (WatchdogStopReturn(t) /\ tasks[wd.aw].res # "exc")
               => /\ wd'.log = "info_stopped"
                  /\ ~is_running' /\ is_locked(expired_lock')]_vars

\* C33: the toggle starts nothing while the URL or the chat is not stored,
\* no step removes a stored URL or a stored chat, and so every live task
\* finds both stored and is never in the wait of the `if not url or not
\* chat_id` branch.
StartedWithUrlAndChat ==
    /\ [](\A i \in TaskIds :
             Live(tasks[i]) => /\ watch_url # None /\ chat_id # None
                               /\ tasks[i].pc # "idle_wait")
    /\ [][/\ watch_url # None => watch_url' # None
          /\ chat_id # None => chat_id' # None
          /\ (CmdToggle /\ (watch_url = None \/ chat_id = None))
               => UNCHANGED svcVars /\ hnd'.pc # "reply_started"]_vars

\* the toggle was refused for want of a URL, and no task exists
ToggleNeedsUrl ==
    /\ up /\ hnd.pc = "reply_need_url" /\ watch_url = None /\ chat_id # None
    /\ task = None /\ \A i \in TaskIds : tasks[i].pc = "none"

\* C34: while the lock is "true", or an expiry is stored and now >= expiry,
\* no step changes the stored URL; a set-URL press and a text handled then
\* are answered with the expiry notice and leave the URL, the chat and the
\* set-URL mode as they are.
UrlFrozenAfterExpiry ==
    [][/\ Refused(expired_lock, now, expiry_at) => watch_url' = watch_url
       /\ \A c \in Chats :
            (CmdSetUrl(c) /\ Refused(expired_lock, now, expiry_at))
              => /\ hnd'.pc = "reply_url_expired"
                 /\ UNCHANGED <<watch_url, chat_id, mode>>
       /\ \A c \in Chats, x \in HostTexts :
            (CmdText(c, x) /\ Refused(expired_lock, now, expiry_at))
              => /\ hnd'.pc = "reply_text_expired"
                 /\ UNCHANGED <<watch_url, chat_id, mode>>]_vars

\* a text sent in set-URL mode was refused for expiry: nothing is stored
UrlTextRefused ==
    /\ up /\ hnd.pc = "reply_text_expired" /\ hnd.chat # None /\ mode[hnd.chat]
    /\ watch_url = None /\ chat_id = None
    /\ Refused(expired_lock, now, expiry_at)

RestartPreservesStore ==
    [][/\ Kill => UNCHANGED storeVars /\ ~is_running'
       /\ \A d \in 0..MaxDays :
            (Main(d) /\ expiry_at # None)
              => /\ UNCHANGED storeVars
                 /\ task' = None /\ stop_event' = None
                 /\ \A i \in TaskIds : tasks'[i] = NoTask
       /\ (~is_running /\ is_running') => CmdToggle]_vars

\* a process launched again on a store that holds URL, chat and ads: it
\* has handled nothing yet and runs nothing
RestartedIdle ==
    /\ up /\ hnd.pc = "idle" /\ wd.pc = "idle" /\ wd.log = "none"
    /\ watch_url # None /\ chat_id # None /\ Len(ads) > 0 /\ expiry_at # None
    /\ task = None /\ Idle

\* C37: when the stop() awaited by expiry_job raises, that run leaves the
\* lock as it is and ends inside the job, with its warning printed; the
\* watchdog sets the lock only in a run that found nothing running or whose
\* stop() returned; and the next run that finds the guard true and nothing
\* running sets the lock.
WatchdogStopFailureContained ==
    [][/\ \A t \in BOOLEAN :
            (WatchdogStopReturn(t) /\ wait_for(wd.aw, t) = "raised")
              => /\ expired_lock' = expired_lock
                 /\ wd'.pc = "idle" /\ wd'.log = "warn"
       /\ \A t \in BOOLEAN :
            (WatchdogStopReturn(t) /\ expired_lock' # expired_lock)
              => wait_for(wd.aw, t) = "returned" /\ ~is_running'
       /\ (WatchdogRun /\ ShouldLatch(expired_lock, now, expiry_at) /\ ~is_running)
            => is_locked(expired_lock')]_vars

\* the number of times id occurs in list
RECURSIVE Occurrences(_, _)
Occurrences(list, id) ==
    IF list = <<>> THEN 0
    ELSE (IF Head(list) = id THEN 1 ELSE 0) + Occurrences(Tail(list), id)

\* C38: an id that the list of the current tick holds more than once is
\* passed to _send_ad at most once in that tick, and once the for loop of
\* the tick is over, an id that was dispatched in it is in table ads (its
\* later occurrences found it there and were passed over).
DuplicateDispatchedOnce ==
    \A id \in Ids :
        Occurrences(tick.list, id) > 1
          => /\ Occurrences(tick.sentq, id) <= 1
             /\ (TickComplete /\ Occurrences(tick.sentq, id) = 1)
                  => ~is_new_ad(ads, id)

\* C39: autoru with a freshness limit (fresh_days >= 0): the step in which
\* the detail fetch of a candidate comes back without a posting date (the
\* fetch failed or the page shows none) writes the candidate's row and
\* passes nothing to _send_ad; and no step ever removes the row of an id or
\* passes an id that has a row to _send_ad.
UndatedNeverSent ==
    [][/\ \A i \in TaskIds, shot \in BOOLEAN :
            (DetailsDone(i, NoDate, shot) /\ cfg.fresh_days >= 0)
              => /\ ~is_new_ad(ads', tasks[i].cur)
                 /\ sent' = sent
                 /\ tick'.sentq = tick.sentq
       /\ \A id \in Ids :
            ~is_new_ad(ads, id) => ~is_new_ad(ads', id) /\ sent'[id] = sent[id]]_vars

\* a tick of autoru is over in which a candidate without a posting date was
\* dropped by the filter: it has its row and was never dispatched
UndatedRecordedUnsent ==
    /\ svc = "autoru" /\ cfg.fresh_days >= 0
    /\ TickComplete
    /\ \E id \in tick.undated :
         /\ id \in Range(tick.list) /\ id \notin Range(tick.sentq)
         /\ ~is_new_ad(ads, id) /\ sent[id] = 0 /\ saves[id] >= 1
====
